---- MODULE Spec2Model ----
(***************************************************************************)
(* Model of the parking-assistant backend's conversation routes            *)
(* (CopilotParkingBackend/src/routes/conversationRoutes.ts) and of the     *)
(* frontend user slice (copilot-frontend/src/store/userSlice.ts).          *)
(*                                                                         *)
(* Strings are TLA+ strings; a character is a string of length one.        *)
(***************************************************************************)
EXTENDS Integers, Sequences, FiniteSets, TLC

VARIABLES
    content,        \* smart-response: response.data.choices[0]?.message?.content, <<>> when absent
    aiMessage,      \* smart-response: the reply under the template check (content || '')
    finalMessage,   \* smart-response: the message after the template check
    checked,        \* TRUE once the template check has run
    users,          \* table User: id -> record
    events,         \* table Event: the ids present
    eventUsers,     \* table EventUser: id -> record
    conversations,  \* table Conversation: a set of rows
    clock,          \* the store's clock: the next row's creation time
    request,        \* the request handled last
    response,       \* the response sent last
    messages,       \* the message list sent last to the completion API
    historyIds,     \* ids of the stored rows inside `messages`
    smartOk,        \* number of 200 responses of POST /smart-response
    state,          \* the user slice's state
    dispatched      \* the actions dispatched to the user slice, oldest first

ruleVars  == <<content, aiMessage, finalMessage, checked>>
dbVars    == <<users, events, eventUsers, conversations, clock, request, response,
               messages, historyIds, smartOk>>
sliceVars == <<state, dispatched>>

vars == <<content, aiMessage, finalMessage, checked, users, events, eventUsers,
          conversations, clock, request, response, messages, historyIds, smartOk,
          state, dispatched>>

-----------------------------------------------------------------------------
(* String.prototype.toLowerCase / includes / match, on ASCII text *)

UpperCase == <<"A","B","C","D","E","F","G","H","I","J","K","L","M",
               "N","O","P","Q","R","S","T","U","V","W","X","Y","Z">>

LowerCase == <<"a","b","c","d","e","f","g","h","i","j","k","l","m",
               "n","o","p","q","r","s","t","u","v","w","x","y","z">>

\* one character to lower case: the upper-case letters change, nothing else does
LowerOf == [c \in {UpperCase[i] : i \in 1..Len(UpperCase)} |->
                LowerCase[CHOOSE i \in 1..Len(UpperCase) : UpperCase[i] = c]]

LowerChar(c) == IF c \in DOMAIN LowerOf THEN LowerOf[c] ELSE c

RECURSIVE toLowerCase(_)
toLowerCase(s) ==
    IF s = "" THEN ""
    ELSE LowerChar(SubSeq(s, 1, 1)) \o toLowerCase(SubSeq(s, 2, Len(s)))

\* s.includes(p): p occurs in s as a contiguous substring
includes(s, p) ==
    \E i \in 1..(Len(s) - Len(p) + 1) : SubSeq(s, i, i + Len(p) - 1) = p

Terminators == {".", "!", "?"}

\* length of the longest prefix of s free of '.', '!' and '?': what [^.!?]+ consumes
RECURSIVE LeadingRun(_)
LeadingRun(s) ==
    IF s = "" \/ SubSeq(s, 1, 1) \in Terminators THEN 0
    ELSE 1 + LeadingRun(SubSeq(s, 2, Len(s)))

NoMatch == <<>>

\* variant: the pattern /^[^.!?]*[.!?]/, which also accepts an empty run
MatchFirstSentence_emptyRun(s) ==
    LET n == LeadingRun(s)
    IN  IF n < Len(s) THEN <<SubSeq(s, 1, n + 1)>> ELSE NoMatch

\* aiMessage.match(/^[^.!?]+[.!?]/): a one-element match array, or NoMatch (null)
MatchFirstSentence(s) ==
    LET n == LeadingRun(s)
    IN  IF n >= 1 /\ n < Len(s) THEN <<SubSeq(s, 1, n + 1)>> ELSE NoMatch

\* aiMessage.match(...)?.[0] || aiMessage
firstSentence(s) ==
    LET m == MatchFirstSentence(s)
    IN  IF m # NoMatch /\ m[1] # "" THEN m[1] ELSE s

-----------------------------------------------------------------------------
(* messageTemplates (../utils/messageTemplates): each template is a        *)
(* function of the user and the event; only its identity matters here.     *)

TemplateContent(name, user, event) ==
    "<" \o name \o ":" \o user \o ":" \o event \o ">"

carRegistration(user, event)     == TemplateContent("carRegistration", user, event)
finalRecommendation(user, event) == TemplateContent("finalRecommendation", user, event)
contactAdmin(user, event)        == TemplateContent("contactAdmin", user, event)
initialGreeting(user, event)     ==
    [role |-> "system", content |-> TemplateContent("initialGreeting", user, event)]

-----------------------------------------------------------------------------
(* The template check of POST /smart-response *)

\* variant: the contactAdmin rule tested before the carRegistration rule
TemplateCheck_contactFirst(ai, user, event) ==
    LET lower == toLowerCase(ai)
    IN  IF includes(lower, "contact the event organizer")
           \/ includes(lower, "meeting information incorrect")
        THEN contactAdmin(user, event)
        ELSE IF (includes(lower, "provide your license plate")
                   \/ includes(lower, "register your vehicle"))
                /\ ~includes(lower, "already have your")
        THEN carRegistration(user, event)
        ELSE IF includes(lower, "customized cards for visualization")
                /\ (includes(lower, "your final parking details")
                      \/ includes(lower, "here is your final parking details")
                      \/ includes(lower, "view interactive map"))
        THEN finalRecommendation(user, event)
        ELSE IF includes(lower, "parking")
                /\ includes(lower, "recommend")
                /\ (includes(lower, "pregnant")
                      \/ includes(lower, "injury")
                      \/ includes(lower, "accessibility"))
        THEN firstSentence(ai) \o "\n\n" \o finalRecommendation(user, event)
        ELSE ai

\* variant: the carRegistration rule without its 'already have your' exclusion
TemplateCheck_noExclusion(ai, user, event) ==
    LET lower == toLowerCase(ai)
    IN  IF includes(lower, "provide your license plate")
           \/ includes(lower, "register your vehicle")
        THEN carRegistration(user, event)
        ELSE IF includes(lower, "customized cards for visualization")
                /\ (includes(lower, "your final parking details")
                      \/ includes(lower, "here is your final parking details")
                      \/ includes(lower, "view interactive map"))
        THEN finalRecommendation(user, event)
        ELSE IF includes(lower, "contact the event organizer")
                \/ includes(lower, "meeting information incorrect")
        THEN contactAdmin(user, event)
        ELSE IF includes(lower, "parking")
                /\ includes(lower, "recommend")
                /\ (includes(lower, "pregnant")
                      \/ includes(lower, "injury")
                      \/ includes(lower, "accessibility"))
        THEN firstSentence(ai) \o "\n\n" \o finalRecommendation(user, event)
        ELSE ai

TemplateCheck(ai, user, event) ==
    LET lower == toLowerCase(ai)
    IN  IF (includes(lower, "provide your license plate")
              \/ includes(lower, "register your vehicle"))
           /\ ~includes(lower, "already have your")
        THEN carRegistration(user, event)
        ELSE IF includes(lower, "customized cards for visualization")
                /\ (includes(lower, "your final parking details")
                      \/ includes(lower, "here is your final parking details")
                      \/ includes(lower, "view interactive map"))
        THEN finalRecommendation(user, event)
        ELSE IF includes(lower, "contact the event organizer")
                \/ includes(lower, "meeting information incorrect")
        THEN contactAdmin(user, event)
        ELSE IF includes(lower, "parking")
                /\ includes(lower, "recommend")
                /\ (includes(lower, "pregnant")
                      \/ includes(lower, "injury")
                      \/ includes(lower, "accessibility"))
        THEN firstSentence(ai) \o "\n\n" \o finalRecommendation(user, event)
        ELSE ai

-----------------------------------------------------------------------------
(* The relational store.  Event users refer to users and events that exist *)
(* (foreign keys), and a conversation row refers to an event user that     *)
(* exists.  Rows get distinct, increasing creation times.                  *)

NoPlate == "<null>"

UserIds      == {"u1", "u2"}
EventIds     == {"ev1"}
EventUserIds == {"eu1", "eu2", "eu9"}   \* eu9 has no event-user record

InitUsers ==
    [u \in UserIds |-> [id |-> u, carPlate |-> IF u = "u1" THEN "OLD111" ELSE NoPlate]]

InitEventUsers ==
    [e \in {"eu1", "eu2"} |->
        [id |-> e, userId |-> IF e = "eu1" THEN "u1" ELSE "u2", eventId |-> "ev1"]]

Null == [id |-> "<null>"]

\* prisma.eventUser.findUnique({ where: { id }, include: { user: true, event: true } })
findUniqueEventUser(us, id) ==
    IF id \notin DOMAIN eventUsers THEN Null
    ELSE LET eu == eventUsers[id]
         IN  [id      |-> eu.id,
              userId  |-> eu.userId,
              eventId |-> eu.eventId,
              user    |-> IF eu.userId \in DOMAIN us THEN us[eu.userId] ELSE Null,
              event   |-> IF eu.eventId \in events THEN [id |-> eu.eventId] ELSE Null]

\* prisma.conversation.create({ data: { conversationId: eventUserId, eventUserId, sender, message } })
\* `by` is a ghost field: the route that added the row
NewRow(eventUserId, sender, message, by) ==
    [id             |-> clock,
     conversationId |-> eventUserId,
     eventUserId    |-> eventUserId,
     sender         |-> sender,
     message        |-> message,
     createdAt      |-> clock,
     by             |-> by]

\* variant: the raw reply stored instead of the final message
botConversation_raw(eventUserId, ai, final) == NewRow(eventUserId, "bot", ai, "smart")

\* the row POST /smart-response stores: the bot's message after the template check
botConversation(eventUserId, ai, final) == NewRow(eventUserId, "bot", final, "smart")

\* orderBy: { createdAt: 'asc' }
RECURSIVE OrderByCreatedAtAsc(_)
OrderByCreatedAtAsc(rows) ==
    IF rows = {} THEN <<>>
    ELSE LET first == CHOOSE r \in rows : \A o \in rows : r.createdAt <= o.createdAt
         IN  <<first>> \o OrderByCreatedAtAsc(rows \ {first})

HistoryTake == 10

Take(seq, n) == SubSeq(seq, 1, IF Len(seq) < n THEN Len(seq) ELSE n)

\* variant: the where clause left out
findMany_all(eventUserId) == OrderByCreatedAtAsc(conversations)

\* prisma.conversation.findMany({ where: { eventUserId }, orderBy: { createdAt: 'asc' } })
findMany(eventUserId) ==
    OrderByCreatedAtAsc({r \in conversations : r.eventUserId = eventUserId})

\* variant: the 10 most recent rows (the last 10 in ascending order)
conversationHistory_recent(eventUserId) ==
    LET all == findMany(eventUserId)
    IN  SubSeq(all, IF Len(all) > HistoryTake THEN Len(all) - HistoryTake + 1 ELSE 1,
               Len(all))

\* ... with take: 10
conversationHistory(eventUserId) == Take(findMany(eventUserId), HistoryTake)

formattedHistory(history) ==
    [i \in 1..Len(history) |->
        [role    |-> IF history[i].sender = "user" THEN "user" ELSE "assistant",
         content |-> history[i].message]]

PromptMessages(user, event, history, message) ==
    <<initialGreeting(user, event)>> \o formattedHistory(history)
        \o <<[role |-> "user", content |-> message]>>

\* response.data.choices[0]?.message?.content || ''
ContentOrEmpty(c) == IF c = <<>> THEN "" ELSE c[1]

-----------------------------------------------------------------------------
(* The routes *)

MaxNew == 2     \* rows created on top of the stored history

Senders   == {"user", "admin"}
Texts     == {"Where do I park?"}
Plates    == {"ABC123"}

\* what the completion API answers: a failure, or a reply with or without content
ApiFailure  == [ok |-> FALSE, content |-> <<>>]
ApiReplies  ==
    { [ok |-> TRUE, content |-> <<"Please Register Your Vehicle first.">>] }
ApiOutcomes == {ApiFailure} \cup ApiReplies

\* rows present at the start carry by = "seed"
CanCreate == clock <= Cardinality({r \in conversations : r.by = "seed"}) + MaxNew

\* router.post('/')
CreateConversation(eventUserId, sender, message) ==
    /\ eventUserId \in DOMAIN eventUsers => CanCreate
    /\ request' = [route |-> "POST /", eventUserId |-> eventUserId,
                   sender |-> sender, message |-> message]
    /\ IF eventUserId \in DOMAIN eventUsers
       THEN LET conversation == NewRow(eventUserId, sender, message, "create")
            IN  /\ conversations' = conversations \cup {conversation}
                /\ clock' = clock + 1
                /\ response' = [status |-> 201, body |-> conversation]
       ELSE /\ response' = [status |-> 500,
                            body |-> [error |-> "Failed to create conversation"]]
            /\ UNCHANGED <<conversations, clock>>
    /\ UNCHANGED <<users, events, eventUsers, messages, historyIds, smartOk>>
    /\ UNCHANGED <<ruleVars, sliceVars>>

\* router.get('/:eventUserId')
GetConversations(eventUserId) ==
    /\ request' = [route |-> "GET /:eventUserId", eventUserId |-> eventUserId]
    /\ response' = [status |-> 200, body |-> findMany(eventUserId)]
    /\ UNCHANGED <<users, events, eventUsers, conversations, clock, messages,
                   historyIds, smartOk>>
    /\ UNCHANGED <<ruleVars, sliceVars>>

\* variant: a missing record answered the way /register-plate answers it
SmartFailure_404 == [status |-> 404, body |-> [error |-> "Event user not found"]]

SmartFailure == [status |-> 500, body |-> [error |-> "Failed to get AI response"]]

\* router.post('/smart-response')
SmartResponse(eventUserId, message, api) ==
    /\ api.ok => CanCreate
    /\ request' = [route |-> "POST /smart-response", eventUserId |-> eventUserId,
                   message |-> message]
    /\ LET eventUser == findUniqueEventUser(users, eventUserId)
       IN  IF eventUser = Null \/ eventUser.user = Null \/ eventUser.event = Null
           THEN /\ response' = SmartFailure
                /\ UNCHANGED <<conversations, clock, messages, historyIds, smartOk>>
                /\ UNCHANGED ruleVars
           ELSE LET user    == eventUser.user
                    event   == eventUser.event
                    history == conversationHistory(eventUserId)
                IN  /\ messages' = PromptMessages(user.id, event.id, history, message)
                    /\ historyIds' = {history[i].id : i \in 1..Len(history)}
                    /\ IF ~api.ok
                       THEN /\ response' = SmartFailure
                            /\ UNCHANGED <<conversations, clock, smartOk>>
                            /\ UNCHANGED ruleVars
                       ELSE LET ai    == ContentOrEmpty(api.content)
                                final == TemplateCheck(ai, user.id, event.id)
                            IN  /\ content' = api.content
                                /\ aiMessage' = ai
                                /\ finalMessage' = final
                                /\ checked' = TRUE
                                /\ conversations' = conversations \cup
                                       {botConversation(eventUserId, ai, final)}
                                /\ clock' = clock + 1
                                /\ response' = [status |-> 200,
                                                body |-> [message |-> final]]
                                /\ smartOk' = smartOk + 1
    /\ UNCHANGED <<users, events, eventUsers>>
    /\ UNCHANGED sliceVars

\* variant: the update without its where clause
updateUser_all(us, id, carPlate) ==
    [u \in DOMAIN us |-> [us[u] EXCEPT !.carPlate = carPlate]]

\* prisma.user.update({ where: { id }, data: { carPlate } })
updateUser(us, id, carPlate) == [us EXCEPT ![id].carPlate = carPlate]

\* router.post('/register-plate')
RegisterPlate(eventUserId, carPlate) ==
    /\ request' = [route |-> "POST /register-plate", eventUserId |-> eventUserId,
                   carPlate |-> carPlate]
    /\ LET eventUser == findUniqueEventUser(users, eventUserId)
       IN  IF eventUser = Null
           THEN /\ response' = [status |-> 404,
                                body |-> [error |-> "Event user not found"]]
                /\ UNCHANGED users
           ELSE IF eventUser.userId \notin DOMAIN users
           THEN /\ response' = [status |-> 500,
                                body |-> [error |-> "Failed to register car plate"]]
                /\ UNCHANGED users
           ELSE /\ users' = updateUser(users, eventUser.userId, carPlate)
                /\ response' = [status |-> 200,
                                body |-> findUniqueEventUser(users', eventUserId)]
    /\ UNCHANGED <<events, eventUsers, conversations, clock, messages, historyIds,
                   smartOk>>
    /\ UNCHANGED <<ruleVars, sliceVars>>

-----------------------------------------------------------------------------
(* The user slice *)

initialState == [user |-> <<>>, loading |-> FALSE, error |-> <<>>]

\* variant: setUser also clears the error
setUser_clearsError(st, payload) == [st EXCEPT !.user = payload.user, !.error = <<>>]

\* reducers; null is <<>>, a value v is <<v>>
setUser(st, payload)    == [st EXCEPT !.user = payload.user]
setLoading(st, payload) == [st EXCEPT !.loading = payload]
setError(st, payload)   == [st EXCEPT !.error = payload]

MaxDispatch == 3

SliceUsers  == {<<>>, <<[id |-> "u1", carPlate |-> "ABC123"]>>, <<[id |-> "u2"]>>}
SliceErrors == {<<>>, <<"Network Error">>, <<"Not found">>}

\* the slice's reducer: the case reducer the action's type names
reducer(st, action) ==
    CASE action.type = "user/setUser"    -> setUser(st, action.payload)
      [] action.type = "user/setLoading" -> setLoading(st, action.payload)
      [] action.type = "user/setError"   -> setError(st, action.payload)

DispatchSetUser ==
    \E u \in SliceUsers :
        LET action == [type |-> "user/setUser", payload |-> [user |-> u]]
        IN  /\ Len(dispatched) < MaxDispatch
            /\ dispatched' = Append(dispatched, action)
            /\ state' = reducer(state, action)
            /\ UNCHANGED <<ruleVars, dbVars>>

DispatchSetLoading ==
    \E b \in BOOLEAN :
        LET action == [type |-> "user/setLoading", payload |-> b]
        IN  /\ Len(dispatched) < MaxDispatch
            /\ dispatched' = Append(dispatched, action)
            /\ state' = reducer(state, action)
            /\ UNCHANGED <<ruleVars, dbVars>>

DispatchSetError ==
    \E e \in SliceErrors :
        LET action == [type |-> "user/setError", payload |-> e]
        IN  /\ Len(dispatched) < MaxDispatch
            /\ dispatched' = Append(dispatched, action)
            /\ state' = reducer(state, action)
            /\ UNCHANGED <<ruleVars, dbVars>>

-----------------------------------------------------------------------------
(* Replies of the completion API: up to MaxParts fragments in a row *)

MaxParts == 3

Parts ==
    { "Provide Your License Plate", "register your vehicle",
      "We Already Have Your plate",
      "Customized Cards for Visualization",
      "Here is your final parking details", "View Interactive Map",
      "Contact the Event Organizer", "meeting information incorrect",
      "We Recommend parking", " for your Injury!", "Accessibility",
      ".", "Pregnant? " }

RECURSIVE Concats(_)
Concats(n) ==
    IF n = 0 THEN {""}
    ELSE LET shorter == Concats(n - 1)
         IN  shorter \cup {s \o p : s \in shorter, p \in Parts}

Replies == Concats(MaxParts)

RuleUser  == "u1"
RuleEvent == "ev1"

\* lines 124-158 on one reply
CheckTemplates ==
    /\ ~checked
    /\ aiMessage' = ContentOrEmpty(content)
    /\ finalMessage' = TemplateCheck(aiMessage', RuleUser, RuleEvent)
    /\ checked' = TRUE
    /\ UNCHANGED <<content, dbVars, sliceVars>>

-----------------------------------------------------------------------------
(* Initial states and specifications *)

SeedSizes == {0, HistoryTake}

\* a history of n rows of eu1, the user and the bot taking turns
SeedRows(n) ==
    { [id             |-> k,
       conversationId |-> "eu1",
       eventUserId    |-> "eu1",
       sender         |-> IF k % 2 = 1 THEN "user" ELSE "bot",
       message        |-> IF k % 2 = 1 THEN "Where do I park?" ELSE "Use lot C.",
       createdAt      |-> k,
       by             |-> "seed"] : k \in 1..n }

InitRuleVars ==
    /\ content = <<>>
    /\ aiMessage = ""
    /\ finalMessage = ""
    /\ checked = FALSE

InitDbVars(seeds) ==
    /\ users = InitUsers
    /\ events = EventIds
    /\ eventUsers = InitEventUsers
    /\ \E n \in seeds : /\ conversations = SeedRows(n)
                        /\ clock = n + 1
    /\ request = [route |-> "none"]
    /\ response = [status |-> 0]
    /\ messages = <<>>
    /\ historyIds = {}
    /\ smartOk = 0

InitSliceVars ==
    /\ state = initialState
    /\ dispatched = <<>>

\* the store and its routes
Init == InitRuleVars /\ InitDbVars(SeedSizes) /\ InitSliceVars

Next ==
    \E eventUserId \in EventUserIds :
        \/ \E sender \in Senders, message \in Texts :
               CreateConversation(eventUserId, sender, message)
        \/ GetConversations(eventUserId)
        \/ \E message \in Texts, api \in ApiOutcomes :
               SmartResponse(eventUserId, message, api)
        \/ \E carPlate \in Plates : RegisterPlate(eventUserId, carPlate)

Spec == Init /\ [][Next]_vars

\* the template check alone, on every reply
InitRules ==
    /\ content \in {<<>>} \cup {<<r>> : r \in Replies}
    /\ aiMessage = ""
    /\ finalMessage = ""
    /\ checked = FALSE
    /\ InitDbVars({0})
    /\ InitSliceVars

NextRules == CheckTemplates

SpecRules == InitRules /\ [][NextRules]_vars

\* the user slice alone
InitSlice == InitRuleVars /\ InitDbVars({0}) /\ InitSliceVars

NextSlice == DispatchSetUser \/ DispatchSetLoading \/ DispatchSetError

SpecSlice == InitSlice /\ [][NextSlice]_vars

-----------------------------------------------------------------------------
(* Properties of the template check (under SpecRules) *)

\* the four override rules as the text states them, on the lower-cased reply
Rule1(low) ==
    /\ \/ includes(low, "provide your license plate")
       \/ includes(low, "register your vehicle")
    /\ ~includes(low, "already have your")

Rule2(low) ==
    /\ includes(low, "customized cards for visualization")
    /\ \E p \in {"your final parking details", "here is your final parking details",
                 "view interactive map"} : includes(low, p)

Rule3(low) ==
    \E p \in {"contact the event organizer", "meeting information incorrect"} :
        includes(low, p)

Rule4(low) ==
    /\ includes(low, "parking")
    /\ includes(low, "recommend")
    /\ \E p \in {"pregnant", "injury", "accessibility"} : includes(low, p)

\* positions of '.', '!' and '?' in s
TerminatorAt(s) == {i \in 1..Len(s) : SubSeq(s, i, i) \in Terminators}

FirstTerminator(s) ==
    CHOOSE i \in TerminatorAt(s) : \A j \in TerminatorAt(s) : i <= j

\* the special-needs message built on the prefix `sentence` of the reply
SpecialNeeds(sentence) ==
    sentence \o "\n\n" \o finalRecommendation(RuleUser, RuleEvent)

\* C1: the final message is the template of the first rule, in the order
\* carRegistration, finalRecommendation, contactAdmin, special needs, that the
\* reply matches; a reply matching several rules gets the earliest one's.
C1_FirstMatchingRule ==
    checked =>
        LET low == toLowerCase(aiMessage)
            r1  == Rule1(low)
            r2  == Rule2(low)
            r3  == Rule3(low)
            r4  == Rule4(low)
        IN  /\ r1 => finalMessage = carRegistration(RuleUser, RuleEvent)
            /\ (~r1 /\ r2) => finalMessage = finalRecommendation(RuleUser, RuleEvent)
            /\ (~r1 /\ ~r2 /\ r3) => finalMessage = contactAdmin(RuleUser, RuleEvent)
            /\ (~r1 /\ ~r2 /\ ~r3 /\ r4) =>
                   \E k \in 0..Len(aiMessage) :
                       finalMessage = SpecialNeeds(SubSeq(aiMessage, 1, k))

\* a reply in mixed case that matches rule 1 and also rule 3 got rule 1's template
C1_Witness ==
    /\ checked
    /\ aiMessage # toLowerCase(aiMessage)
    /\ Rule1(toLowerCase(aiMessage))
    /\ Rule3(toLowerCase(aiMessage))
    /\ finalMessage = carRegistration(RuleUser, RuleEvent)

\* C2: a reply that matches none of the four rules is the final message,
\* unchanged; a reply without content gives the empty string.
C2_KeptWhenNoRuleMatches ==
    checked =>
        LET low == toLowerCase(aiMessage)
        IN  /\ (~Rule1(low) /\ ~Rule2(low) /\ ~Rule3(low) /\ ~Rule4(low)) =>
                   finalMessage = aiMessage
            /\ content = <<>> => finalMessage = ""

\* a reply that asks to register the vehicle but says 'already have your' is kept
C2_Witness ==
    /\ checked
    /\ includes(toLowerCase(aiMessage), "register your vehicle")
    /\ includes(toLowerCase(aiMessage), "already have your")
    /\ ~Rule2(toLowerCase(aiMessage))
    /\ ~Rule3(toLowerCase(aiMessage))
    /\ ~Rule4(toLowerCase(aiMessage))
    /\ finalMessage = aiMessage

\* C8 as stated: under rule 4 alone the final message is the first sentence,
\* a blank line and the finalRecommendation template, the first sentence being
\* the prefix that ends at the first '.', '!' or '?', or the whole reply when
\* it has none of them.
C8_PrefixToFirstTerminator ==
    (checked /\ LET low == toLowerCase(aiMessage)
                IN  ~Rule1(low) /\ ~Rule2(low) /\ ~Rule3(low) /\ Rule4(low)) =>
        finalMessage =
            SpecialNeeds(IF TerminatorAt(aiMessage) # {}
                         THEN SubSeq(aiMessage, 1, FirstTerminator(aiMessage))
                         ELSE aiMessage)

\* C8, amended: the first sentence is the prefix that ends at the first '.',
\* '!' or '?' when that character is not the reply's first character; it is the
\* whole reply when the reply has none of them or begins with one.
C8_FirstSentenceThenTemplate ==
    (checked /\ LET low == toLowerCase(aiMessage)
                IN  ~Rule1(low) /\ ~Rule2(low) /\ ~Rule3(low) /\ Rule4(low)) =>
        finalMessage =
            SpecialNeeds(IF TerminatorAt(aiMessage) # {} /\ FirstTerminator(aiMessage) > 1
                         THEN SubSeq(aiMessage, 1, FirstTerminator(aiMessage))
                         ELSE aiMessage)

\* a special-needs reply with text after its first sentence was cut there
C8_Witness ==
    /\ checked
    /\ Rule4(toLowerCase(aiMessage))
    /\ TerminatorAt(aiMessage) # {}
    /\ FirstTerminator(aiMessage) > 1
    /\ FirstTerminator(aiMessage) < Len(aiMessage)
    /\ finalMessage =
           SpecialNeeds(SubSeq(aiMessage, 1, FirstTerminator(aiMessage)))

-----------------------------------------------------------------------------
(* Properties of the user slice (under SpecSlice) *)

\* indexes of the dispatched actions of one type
Targeting(type) == {i \in 1..Len(dispatched) : dispatched[i].type = type}

\* the payload of the last dispatched action of the type, or `none` if there is none
LastPayload(type, none) ==
    IF Targeting(type) = {} THEN none
    ELSE dispatched[CHOOSE i \in Targeting(type) : \A j \in Targeting(type) : j <= i].payload

\* C6: the slice starts as {user: null, loading: false, error: null}; after any
\* sequence of actions each field holds the payload of the last action that
\* targets it, or its initial value: no reducer writes another reducer's field.
C6_EachReducerOwnsItsField ==
    /\ dispatched = <<>> => state = [user |-> <<>>, loading |-> FALSE, error |-> <<>>]
    /\ state.user = LastPayload("user/setUser", [user |-> <<>>]).user
    /\ state.loading = LastPayload("user/setLoading", FALSE)
    /\ state.error = LastPayload("user/setError", <<>>)

\* an error was set, then a user: both are in the state
C6_Witness ==
    /\ Len(dispatched) >= 2
    /\ dispatched[Len(dispatched)].type = "user/setUser"
    /\ dispatched[Len(dispatched) - 1].type = "user/setError"
    /\ state.error # <<>>
    /\ state.user # <<>>
    /\ state.error = dispatched[Len(dispatched) - 1].payload

-----------------------------------------------------------------------------
(* Properties of the routes (under Spec) *)

SmartRoute    == "POST /smart-response"
RegisterRoute == "POST /register-plate"
GetRoute      == "GET /:eventUserId"

SmartRows == {r \in conversations : r.by = "smart"}

\* the row created last
NewestRow == CHOOSE r \in conversations : r.createdAt = clock - 1

\* C3: every 200 of POST /smart-response adds exactly one row, sender 'bot',
\* for the request's event user, holding the message of the response, which is
\* the final message and not the raw reply; it stores nothing else, and the rows
\* it has added are as many as its 200 responses.
C3_OneBotRowPerSuccess ==
    /\ [](/\ Cardinality(SmartRows) = smartOk
          /\ \A r \in SmartRows : r.sender = "bot"
          /\ (request.route = SmartRoute /\ response.status = 200) =>
                 /\ NewestRow \in SmartRows
                 /\ NewestRow.eventUserId = request.eventUserId
                 /\ NewestRow.message = response.body.message
                 /\ response.body.message =
                        TemplateCheck(ContentOrEmpty(content),
                                      eventUsers[request.eventUserId].userId,
                                      eventUsers[request.eventUserId].eventId))
    /\ [][(request'.route = SmartRoute /\ response'.status = 200) =>
              /\ Cardinality(conversations') = Cardinality(conversations) + 1
              /\ conversations \subseteq conversations'
              /\ smartOk' = smartOk + 1]_vars

\* two smart responses succeeded; the stored message is the template, not the reply
C3_Witness ==
    /\ request.route = SmartRoute
    /\ response.status = 200
    /\ smartOk = 2
    /\ NewestRow.message # aiMessage
    /\ NewestRow.message # request.message
    /\ NewestRow.message = response.body.message

\* C4: GET /:eventUserId returns exactly the rows of the requested event user,
\* each once, in ascending order of creation time.
C4_HistoryOfOneEventUser ==
    request.route = GetRoute =>
        LET body == response.body
        IN  /\ response.status = 200
            /\ {body[i] : i \in 1..Len(body)}
                   = {r \in conversations : r.eventUserId = request.eventUserId}
            /\ \A i, j \in 1..Len(body) : i < j => body[i].createdAt < body[j].createdAt

\* a history with rows of both routes, while another event user has rows too
C4_Witness ==
    /\ request.route = GetRoute
    /\ Len(response.body) >= 2
    /\ \E i \in 1..Len(response.body) : response.body[i].by = "smart"
    /\ \E i \in 1..Len(response.body) : response.body[i].by = "create"
    /\ \E r \in conversations : r.eventUserId # request.eventUserId

\* C5: POST /register-plate answers 404 'Event user not found' for an event
\* user without a record and changes nothing; otherwise it sets the carPlate of
\* the event user's user, of no other user, leaves the conversations alone and
\* returns the event user with the new plate.
C5_RegisterPlate ==
    [][request'.route = RegisterRoute =>
          LET id == request'.eventUserId
          IN  IF id \notin DOMAIN eventUsers
              THEN /\ response'.status = 404
                   /\ response'.body = [error |-> "Event user not found"]
                   /\ users' = users
                   /\ conversations' = conversations
              ELSE LET userId == eventUsers[id].userId
                   IN  /\ users'[userId].carPlate = request'.carPlate
                       /\ \A o \in DOMAIN users \ {userId} : users'[o] = users[o]
                       /\ DOMAIN users' = DOMAIN users
                       /\ conversations' = conversations
                       /\ response'.status = 200
                       /\ response'.body.id = id
                       /\ response'.body.user.id = userId
                       /\ response'.body.user.carPlate = request'.carPlate]_vars

\* u2 got its plate, u1 kept its own, the stored rows are still there
C5_Witness ==
    /\ request.route = RegisterRoute
    /\ request.eventUserId = "eu2"
    /\ response.status = 200
    /\ users["u2"].carPlate = "ABC123"
    /\ users["u1"].carPlate = "OLD111"
    /\ conversations # {}

\* C7: a POST /smart-response that fails answers 500 'Failed to get AI
\* response' and leaves the stored conversations as they were; it fails whenever
\* the event user has no record.
C7_FailureStoresNothing ==
    [][request'.route = SmartRoute =>
          /\ request'.eventUserId \notin DOMAIN eventUsers => response'.status # 200
          /\ response'.status # 200 =>
                 /\ response'.status = 500
                 /\ response'.body.error = "Failed to get AI response"
                 /\ conversations' = conversations
                 /\ smartOk' = smartOk]_vars

\* the completion API failed for an event user that exists and has rows
C7_Witness ==
    /\ request.route = SmartRoute
    /\ request.eventUserId = "eu1"
    /\ response.status = 500
    /\ messages # <<>>
    /\ \E r \in conversations : r.eventUserId = "eu1"

\* the rows of the request's event user that were stored when the prompt was built
PromptRows ==
    {r \in conversations :
        /\ r.eventUserId = request.eventUserId
        /\ response.status = 200 => r.createdAt < clock - 1}

\* 1 for the earliest row of its event user among `rows`, 2 for the next, ...
Rank(r, rows) ==
    Cardinality({o \in rows : o.eventUserId = r.eventUserId /\ o.createdAt <= r.createdAt})

\* C9: the prompt is the initialGreeting, then the 10 earliest stored rows of
\* the event user (all of them if fewer) in ascending creation order, 'user'
\* rows as role user and all others as assistant, then the request's message as
\* role user; a row that is not among its event user's 10 earliest is in no prompt.
C9_PromptHoldsTenEarliest ==
    /\ \A r \in conversations : r.id \in historyIds => Rank(r, conversations) <= 10
    /\ (request.route = SmartRoute /\ request.eventUserId \in DOMAIN eventUsers) =>
           LET n == Len(messages) - 2
           IN  /\ messages[1] =
                      initialGreeting(eventUsers[request.eventUserId].userId,
                                      eventUsers[request.eventUserId].eventId)
               /\ messages[Len(messages)] = [role |-> "user", content |-> request.message]
               /\ n = IF Cardinality(PromptRows) < 10 THEN Cardinality(PromptRows) ELSE 10
               /\ historyIds = {r.id : r \in {o \in PromptRows : Rank(o, PromptRows) <= 10}}
               /\ \A k \in 1..n :
                      \E r \in PromptRows :
                          /\ Rank(r, PromptRows) = k
                          /\ messages[k + 1].content = r.message
                          /\ messages[k + 1].role =
                                 IF r.sender = "user" THEN "user" ELSE "assistant"

\* the event user had more than 10 rows, among them one by another sender than
\* 'user' and 'bot'; the prompt holds 10 of them
C9_Witness ==
    /\ request.route = SmartRoute
    /\ request.eventUserId = "eu1"
    /\ Cardinality(PromptRows) > 10
    /\ Len(messages) = 12
    /\ \E r \in PromptRows : r.id \notin historyIds /\ r.sender = "admin"

====
